---- MODULE Spec2Model ----
(***************************************************************************)
(* A model of three components of the lucid component library:             *)
(*   Legend (with Legend.Item), Panel (with Panel.Header / Panel.Footer)   *)
(*   and Points.                                                           *)
(* Each component is a render function from props to an element tree; the  *)
(* state of a mounted component is its current props, the tree its last    *)
(* render returned, and the callbacks its handlers invoked.                *)
(***************************************************************************)
EXTENDS Integers, Sequences, FiniteSets, TLC

VARIABLES
    legendProps,    \* the props of the mounted Legend
    legendTree,     \* what its last render returned
    legendClicked,  \* the last click: the row's position and the event
    legendCalls,    \* the callback invocations made while handling it
    panelProps,     \* the props of the mounted Panel
    panelTree,      \* what its last render returned
    panelDom,       \* the document rendered from it
    pointsProps,    \* the props of the mounted Points
    pointsTree,     \* what its last render returned
    slotProps,      \* the props a slot extraction is given
    slotType,       \* the slot type it looks for
    slotResult,     \* what it returned
    slotPc,         \* "start" before the extraction, "done" after
    bannerProps,    \* the props of the mounted Banner
    bannerTree,     \* what its last render returned
    bannerClicked,  \* the last click on its close icon: the event
    bannerCalls     \* the callback invocations made while handling it

legendVars == <<legendProps, legendTree, legendClicked, legendCalls>>
panelVars == <<panelProps, panelTree, panelDom>>
pointsVars == <<pointsProps, pointsTree>>
slotVars == <<slotProps, slotType, slotResult, slotPc>>
bannerVars == <<bannerProps, bannerTree, bannerClicked, bannerCalls>>
vars == <<legendVars, panelVars, pointsVars, slotVars, bannerVars>>
notLegend == <<panelVars, pointsVars, slotVars, bannerVars>>
notPanel == <<legendVars, pointsVars, slotVars, bannerVars>>
notPoints == <<legendVars, panelVars, slotVars, bannerVars>>
notSlots == <<legendVars, panelVars, pointsVars, bannerVars>>
notBanner == <<legendVars, panelVars, pointsVars, slotVars>>

(***************************************************************************)
(* Bounds of the model.                                                    *)
(***************************************************************************)
\* the longest children list of a Legend (counted after flattening)
MaxLegendChildren == 2
\* the longest children list of a Panel (counted after flattening)
MaxPanelChildren == 3
\* the largest number of data rows given to Points
MaxRows == 2

(***************************************************************************)
(* JavaScript values.                                                      *)
(***************************************************************************)
\* undefined, where a string, number or boolean may stand
Undefined == "undefined"
\* undefined, where an object (props, an element, an array) may stand
UndefinedObject == [kind |-> "undefined"]
\* null, where a string may stand
Null == "null"
\* null, where an element may stand: it renders nothing
NullElement == [kind |-> "null"]

(***************************************************************************)
(* The children tree.  `children` is undefined, one element, or an array   *)
(* whose entries are elements or arrays.                                   *)
(***************************************************************************)
NoChildren == UndefinedObject
Element(type, props) == [kind |-> "el", type |-> type, props |-> props]
ArrayNode(items) == [kind |-> "arr", items |-> items]

\* all sequences over S of length 0..n
SeqsUpTo(S, n) == UNION {[1..k -> S] : k \in 0..n}

\* the children values whose flattened list is one of the lists over Elems
\* of length up to n: nothing, a lone element, a flat array, or an array with
\* one run of its entries wrapped in a nested array
ChildrenSet(Elems, n) ==
    {NoChildren}
    \cup Elems
    \cup {ArrayNode(f) : f \in SeqsUpTo(Elems, n)}
    \cup UNION {{ArrayNode(SubSeq(f, 1, a - 1)
                           \o <<ArrayNode(SubSeq(f, a, b))>>
                           \o SubSeq(f, b + 1, Len(f)))
                   : a \in 1..Len(f), b \in 1..Len(f)}
                : f \in SeqsUpTo(Elems, n)}

RECURSIVE Flatten(_)
RECURSIVE FlattenSeq(_)
\* React.Children.toArray: the elements of a children value, in order
Flatten(node) ==
    CASE node.kind = "undefined" -> <<>>
      [] node.kind = "el" -> <<node>>
      [] node.kind = "arr" -> FlattenSeq(node.items)
FlattenSeq(items) ==
    IF items = <<>> THEN <<>>
    ELSE Flatten(Head(items)) \o FlattenSeq(Tail(items))

\* util/component-types findTypes: the children of props whose type is `type`
findTypes(props, type) ==
    SelectSeq(Flatten(props.children), LAMBDA e : e.type = type)

\* lodash _.map(elements, 'props')
MapProps(elements) == [i \in 1..Len(elements) |-> elements[i].props]

\* lodash _.first: the first entry, or undefined
First(s) == IF s = <<>> THEN UndefinedObject ELSE s[1]

\* lodash _.last: the last entry, or undefined
Last(s) == IF s = <<>> THEN UndefinedObject ELSE s[Len(s)]

\* a mutation of ChildProps that forgets to filter by type
ChildPropsUnfiltered(props, type) == MapProps(Flatten(props.children))

\* _.map(findTypes(props, Type), 'props'): the props of the slot instances
ChildProps(props, type) == MapProps(findTypes(props, type))

(***************************************************************************)
(* lucidClassNames: the class names a component emits, as the set of the   *)
(* names whose condition holds, plus the extra class names.                *)
(***************************************************************************)
cx(conditional, extra) ==
    {n \in DOMAIN conditional : conditional[n]} \cup (extra \ {Undefined, ""})

(***************************************************************************)
(* Pass-through attributes.                                                *)
(***************************************************************************)
\* the props without the attributes named in keys: lodash _.omit, and what a
\* rest pattern `...passThroughs` keeps after the names destructured before it
Omit(props, keys) == [k \in DOMAIN props \ keys |-> props[k]]

\* util/component-types omitProps(props, undefined, keys)
omitProps(props, keys) == Omit(props, keys)

\* <tag {...spread} a={...} b={...}>: of the spread attributes, those that an
\* attribute or the content written after the spread does not replace
Spread(spread, replaced) == Omit(spread, replaced)

(***************************************************************************)
(* Legend                                                                  *)
(***************************************************************************)
POINT_SIZE == 12
LINE_WIDTH == 22

\* the Legend.Item component: its identity, and what it renders (nothing)
LegendItemType == "Legend.Item"
LegendItem(props) == <<>>

Callbacks == {"cbA", "cbB"}
Events == {"click1", "click2"}

\* the props a Legend.Item can carry: every indicator without a callback,
\* a point item with one callback and a line item with another
LegendItemPropsSet ==
    {p \in [hasLine : BOOLEAN, hasPoint : BOOLEAN,
            onClick : Callbacks \cup {Undefined}] :
        \/ p.onClick = Undefined
        \/ p.onClick = "cbA" /\ p.hasPoint /\ ~p.hasLine
        \/ p.onClick = "cbB" /\ p.hasLine /\ ~p.hasPoint}

LegendElements ==
    {Element(LegendItemType, p) : p \in LegendItemPropsSet}
    \cup {Element("span", [text |-> "note"])}

Orients == {"horizontal", "vertical", "diagonal"}

LegendPropsSet ==
    [orient : Orients, hasBorders : {TRUE}, isReversed : BOOLEAN,
     className : {Undefined}, children : ChildrenSet(LegendElements, MaxLegendChildren)]

\* a mutation of handleItemClick that reports the position counted from 1
handleItemClickFromOne(index, props, event) ==
    IF props.onClick = Undefined THEN <<>>
    ELSE <<[fn |-> props.onClick, index |-> index + 1,
            arg |-> [props |-> props, event |-> event]]>>

\* props[name], undefined when the props carry no such attribute
Prop(props, name) == IF name \in DOMAIN props THEN props[name] ELSE Undefined

\* handleItemClick: the calls it makes
handleItemClick(index, props, event) ==
    IF props.onClick = Undefined THEN <<>>
    ELSE <<[fn |-> props.onClick, index |-> index,
            arg |-> [props |-> props, event |-> event]]>>

\* the <li> of one item
LegendRow(itemProps, index, hasSomeLines) ==
    LET p == itemProps[index + 1]
        hasLine == p.hasLine
        hasPoint == p.hasPoint
        pointKind == IF "pointKind" \in DOMAIN p THEN p.pointKind ELSE 1
        color == Prop(p, "color")
        wide == hasLine \/ hasSomeLines
    IN [tag |-> "li",
        key |-> index,
        className |-> cx([n \in {"&-Item"} |-> TRUE], {Prop(p, "className")}),
        children |-> Prop(p, "children"),
        onClick |-> [index |-> index, props |-> itemProps[index + 1]],
        indicator |->
            IF hasPoint \/ hasLine
            THEN [present |-> TRUE,
                  width |-> IF wide THEN LINE_WIDTH ELSE POINT_SIZE,
                  height |-> POINT_SIZE,
                  point |-> IF hasPoint
                            THEN [present |-> TRUE,
                                  x |-> IF wide THEN LINE_WIDTH \div 2
                                                ELSE POINT_SIZE \div 2,
                                  y |-> POINT_SIZE \div 2,
                                  color |-> color,
                                  kind |-> pointKind]
                            ELSE [present |-> FALSE],
                  line |-> IF hasLine
                           THEN [present |-> TRUE, color |-> color,
                                 d |-> <<0, POINT_SIZE \div 2,
                                         LINE_WIDTH, POINT_SIZE \div 2>>]
                           ELSE [present |-> FALSE]]
            ELSE [present |-> FALSE]]

\* a mutation of HasSomeLines that sizes every row by its own props alone
HasSomeLinesNever(isVertical, itemProps) == FALSE

\* isVertical && _.some(itemProps, ({ hasLine }) => hasLine)
HasSomeLines(isVertical, itemProps) ==
    isVertical /\ \E i \in 1..Len(itemProps) : itemProps[i].hasLine

\* a mutation of LegendRows that lays the rows out back to front when
\* isReversed is set
LegendRowsReversed(props, itemProps, hasSomeLines) ==
    [i \in 1..Len(itemProps) |->
        LegendRow(itemProps,
                  IF props.isReversed THEN Len(itemProps) - i ELSE i - 1,
                  hasSomeLines)]

\* _.map(itemProps, (item, index) => <li ...>)
LegendRows(props, itemProps, hasSomeLines) ==
    [i \in 1..Len(itemProps) |-> LegendRow(itemProps, i - 1, hasSomeLines)]

\* a mutation of LegendPropTypes that does not declare the Item prop
LegendPropTypesWithoutItem ==
    {"className", "orient", "hasBorders", "isReversed"}

\* _.keys(Legend.propTypes)
LegendPropTypes == {"Item", "className", "orient", "hasBorders", "isReversed"}

\* const { className, orient, hasBorders, isReversed, ...passThroughs } = props
LegendPassThroughs(props) ==
    Omit(props, {"className", "orient", "hasBorders", "isReversed"})

\* the Legend render function: the <ul> it returns
Legend(props) ==
    LET isHorizontal == props.orient = "horizontal"
        isVertical == props.orient = "vertical"
        itemProps == ChildProps(props, LegendItemType)
        hasSomeLines == HasSomeLines(isVertical, itemProps)
    IN [tag |-> "ul",
        attrs |-> Spread(omitProps(LegendPassThroughs(props), LegendPropTypes),
                         {"className", "children"}),
        className |->
            cx([n \in {"&", "&-is-horizontal", "&-is-vertical",
                       "&-has-borders", "&-is-reversed"} |->
                    CASE n = "&" -> TRUE
                      [] n = "&-is-horizontal" -> isHorizontal
                      [] n = "&-is-vertical" -> isVertical
                      [] n = "&-has-borders" -> props.hasBorders
                      [] n = "&-is-reversed" -> props.isReversed],
               {props.className}),
        rows |-> LegendRows(props, itemProps, hasSomeLines)]


NoClick == [row |-> -1, event |-> Undefined]

LegendInit ==
    /\ legendProps \in LegendPropsSet
    /\ legendTree = Legend(legendProps)
    /\ legendClicked = NoClick
    /\ legendCalls = <<>>

DefaultLegendProps ==
    [orient |-> "vertical", hasBorders |-> TRUE, isReversed |-> FALSE,
     className |-> Undefined, children |-> NoChildren]

LegendIdle ==
    /\ legendProps = DefaultLegendProps
    /\ legendTree = Legend(legendProps)
    /\ legendClicked = NoClick
    /\ legendCalls = <<>>

\* the owner re-renders the Legend with another orient
LegendSetOrient ==
    \E o \in Orients :
        /\ o # legendProps.orient
        /\ legendProps' = [legendProps EXCEPT !.orient = o]
        /\ legendTree' = Legend(legendProps')
        /\ legendClicked' = NoClick
        /\ legendCalls' = <<>>
        /\ UNCHANGED notLegend

\* the owner re-renders the Legend with isReversed switched
LegendSetReversed ==
    /\ legendProps' = [legendProps EXCEPT !.isReversed = ~@]
    /\ legendTree' = Legend(legendProps')
    /\ legendClicked' = NoClick
    /\ legendCalls' = <<>>
    /\ UNCHANGED notLegend

\* the user clicks the <li> at position i (1-based here, key i - 1)
LegendClick ==
    \E i \in 1..Len(legendTree.rows), ev \in Events :
        LET h == legendTree.rows[i].onClick
        IN /\ legendCalls' = handleItemClick(h.index, h.props, ev)
           /\ legendClicked' = [row |-> i - 1, event |-> ev]
           /\ UNCHANGED <<legendProps, legendTree>>
           /\ UNCHANGED notLegend

LegendNext == LegendSetOrient \/ LegendSetReversed \/ LegendClick

(***************************************************************************)
(* Panel                                                                   *)
(***************************************************************************)
\* the Panel.Header and Panel.Footer components: their identities, and what
\* they render (nothing)
PanelHeaderType == "Panel.Header"
PanelFooterType == "Panel.Footer"
PanelHeaderVisible(props) == <<[tag |-> "Panel.Header", props |-> props]>>
PanelHeader(props) == <<>>
PanelFooter(props) == <<>>

PanelSlotPropsSet ==
    {[children |-> "A", className |-> Undefined],
     [children |-> "B", className |-> "custom"]}

PanelElements ==
    {Element(PanelHeaderType, p) : p \in PanelSlotPropsSet}
    \cup {Element(PanelFooterType, [children |-> "A", className |-> Undefined])}
    \cup {Element("p", [children |-> t]) : t \in {"x", "y"}}

PanelPropsSet ==
    [isGutterless : BOOLEAN, hasMargin : BOOLEAN, isScrollable : BOOLEAN,
     className : {Undefined}, style : {Undefined},
     children : ChildrenSet(PanelElements, MaxPanelChildren)]

\* a mutation of PanelRegion that renders the region whether or not a slot
\* instance was given
PanelRegionAlways(tag, class, childProp) ==
    [present |-> TRUE, tag |-> tag,
     props |-> IF childProp = UndefinedObject
               THEN [className |-> cx([n \in {class} |-> TRUE], {})]
               ELSE [childProp EXCEPT
                       !.className = cx([n \in {class} |-> TRUE], {@})]]

\* {childProp ? <tag {...childProp} className={cx(class, childProp.className)}/> : null}
PanelRegion(tag, class, childProp) ==
    IF childProp = UndefinedObject THEN [present |-> FALSE]
    ELSE [present |-> TRUE, tag |-> tag,
          props |-> [childProp EXCEPT
                       !.className = cx([n \in {class} |-> TRUE], {@})]]

\* _.keys(Panel.propTypes)
PanelPropTypes ==
    {"className", "Header", "Footer", "children", "isGutterless", "hasMargin",
     "style", "isScrollable"}

\* const { children, className, isGutterless, hasMargin, style, isScrollable,
\*         ...passThroughs } = props
PanelPassThroughs(props) ==
    Omit(props, {"children", "className", "isGutterless", "hasMargin", "style",
                 "isScrollable"})

\* a mutation of Panel that takes the last instance of each slot
PanelLastSlot(props) ==
    LET headerChildProp == Last(ChildProps(props, PanelHeaderType))
        footerChildProp == Last(ChildProps(props, PanelFooterType))
    IN [tag |-> "div",
        attrs |-> Spread(omitProps(PanelPassThroughs(props), PanelPropTypes),
                         {"className", "style", "children"}),
        className |->
            cx([n \in {"&", "&-is-not-gutterless", "&-has-margin",
                       "&-is-scrollable"} |->
                    CASE n = "&" -> TRUE
                      [] n = "&-is-not-gutterless" -> ~props.isGutterless
                      [] n = "&-has-margin" -> props.hasMargin
                      [] n = "&-is-scrollable" -> props.isScrollable],
               {props.className}),
        style |-> props.style,
        header |-> PanelRegion("header", "&-Header", headerChildProp),
        section |-> [tag |-> "section",
                     className |-> cx([n \in {"&-content"} |-> TRUE], {}),
                     children |-> props.children],
        footer |-> PanelRegion("footer", "&-Footer", footerChildProp)]

\* the Panel render function: the <div> it returns
Panel(props) ==
    LET headerChildProp == First(ChildProps(props, PanelHeaderType))
        footerChildProp == First(ChildProps(props, PanelFooterType))
    IN [tag |-> "div",
        attrs |-> Spread(omitProps(PanelPassThroughs(props), PanelPropTypes),
                         {"className", "style", "children"}),
        className |->
            cx([n \in {"&", "&-is-not-gutterless", "&-has-margin",
                       "&-is-scrollable"} |->
                    CASE n = "&" -> TRUE
                      [] n = "&-is-not-gutterless" -> ~props.isGutterless
                      [] n = "&-has-margin" -> props.hasMargin
                      [] n = "&-is-scrollable" -> props.isScrollable],
               {props.className}),
        style |-> props.style,
        header |-> PanelRegion("header", "&-Header", headerChildProp),
        section |-> [tag |-> "section",
                     className |-> cx([n \in {"&-content"} |-> TRUE], {}),
                     children |-> props.children],
        footer |-> PanelRegion("footer", "&-Footer", footerChildProp)]

\* what one child element puts in the document: a function component is
\* called, a host element stands for itself
RenderElement(el) ==
    CASE el.type = PanelHeaderType -> PanelHeader(el.props)
      [] el.type = PanelFooterType -> PanelFooter(el.props)
      [] el.type = LegendItemType -> LegendItem(el.props)
      [] OTHER -> <<[tag |-> el.type, props |-> el.props]>>

RECURSIVE RenderElements(_)
RenderElements(els) ==
    IF els = <<>> THEN <<>>
    ELSE RenderElement(Head(els)) \o RenderElements(Tail(els))

\* what a children value puts in the document
RenderChildren(children) == RenderElements(Flatten(children))

\* the document a Panel tree is rendered to
PanelDocument(tree) ==
    [tag |-> tree.tag, attrs |-> tree.attrs,
     className |-> tree.className, style |-> tree.style,
     header |-> tree.header,
     section |-> [present |-> TRUE, tag |-> tree.section.tag,
                  className |-> tree.section.className,
                  content |-> RenderChildren(tree.section.children)],
     footer |-> tree.footer]


PanelInit ==
    /\ panelProps \in PanelPropsSet
    /\ panelTree = Panel(panelProps)
    /\ panelDom = PanelDocument(panelTree)

DefaultPanelProps ==
    [isGutterless |-> FALSE, hasMargin |-> TRUE, isScrollable |-> TRUE,
     className |-> Undefined, style |-> Undefined, children |-> NoChildren]

PanelIdle ==
    /\ panelProps = DefaultPanelProps
    /\ panelTree = Panel(panelProps)
    /\ panelDom = PanelDocument(panelTree)

PanelRerender ==
    /\ panelTree' = Panel(panelProps')
    /\ panelDom' = PanelDocument(panelTree')
    /\ UNCHANGED notPanel

\* the owner re-renders the Panel with isGutterless switched
PanelSetGutterless ==
    /\ panelProps' = [panelProps EXCEPT !.isGutterless = ~@]
    /\ PanelRerender

\* the owner re-renders the Panel with hasMargin switched
PanelSetMargin ==
    /\ panelProps' = [panelProps EXCEPT !.hasMargin = ~@]
    /\ PanelRerender

\* the owner re-renders the Panel with isScrollable switched
PanelSetScrollable ==
    /\ panelProps' = [panelProps EXCEPT !.isScrollable = ~@]
    /\ PanelRerender

PanelNext == PanelSetGutterless \/ PanelSetMargin \/ PanelSetScrollable

(***************************************************************************)
(* Points                                                                  *)
(***************************************************************************)
\* the values a data field can hold, and NaN and undefined
Num(n) == [k |-> "number", v |-> n]
Str(t) == [k |-> "string", v |-> t]
Date(t) == [k |-> "date", v |-> t]
NaN == [k |-> "NaN", v |-> 0]
UndefinedValue == [k |-> "undefined", v |-> 0]
Pair(y0, y1) == [k |-> "array", items |-> <<y0, y1>>]

RawValues == {Num(-1), Num(2), Str("n/a"), Date(3)}

\* lodash _.isFinite, _.isDate, _.isArray and the global isNaN (on numbers)
IsFinite(x) == x.k = "number"
IsDate(x) == x.k = "date"
IsArray(x) == x.k = "array"
IsNaN(x) == x.k = "NaN"

\* a mutation of isValidSeries that accepts every series
isValidSeriesAlways(series) == TRUE

\* isValidSeries
isValidSeries(series) ==
    IF IsArray(series)
    THEN LET last == Last(series.items)
         IN IsFinite(last) \/ IsDate(last)
    ELSE IsFinite(series) \/ IsDate(series)

\* the unary plus d3 applies to each value it stacks
ToNumber(x) ==
    CASE x.k = "number" -> x
      [] x.k = "date" -> Num(x.v)
      [] x.k = "null" -> Num(0)
      [] OTHER -> NaN

\* a + b on numbers and NaN
Plus(a, b) == IF IsNaN(a) \/ IsNaN(b) THEN NaN ELSE Num(a.v + b.v)

\* row[field], undefined when the row has no such field
GetField(row, field) ==
    IF field \in DOMAIN row THEN row[field] ELSE UndefinedValue

RECURSIVE StackEntry(_, _, _)
\* d3Shape.stack().keys(keys)(data)[i][j] with the default order and offset:
\* [y0, y1], y0 the top of the series below (skipping NaN), y1 = y0 + value
StackEntry(keys, row, i) ==
    LET value == ToNumber(GetField(row, keys[i]))
    IN IF i = 1 THEN <<Num(0), value>>
       ELSE LET below == StackEntry(keys, row, i - 1)
                y0 == IF IsNaN(below[2]) THEN below[1] ELSE below[2]
            IN <<y0, Plus(value, y0)>>

stack(keys, data) ==
    [i \in 1..Len(keys) |->
        [j \in 1..Len(data) |->
            LET e == StackEntry(keys, data[j], i) IN Pair(e[1], e[2])]]

\* util/chart-helpers groupByFields: one series per field, one value per row
groupByFields(data, fields) ==
    [i \in 1..Len(fields) |->
        [j \in 1..Len(data) |-> GetField(data[j], fields[i])]]

RECURSIVE FlattenPairs(_)
\* lodash _.flatten of a series of pairs (of undefined: the empty list)
FlattenPairs(series) ==
    IF series = <<>> THEN <<>>
    ELSE Head(series).items \o FlattenPairs(Tail(series))

RECURSIVE Max(_)
\* lodash _.max: the largest number of the list, NaN skipped; undefined when
\* there is none
Max(list) ==
    IF list = <<>> THEN UndefinedValue
    ELSE LET rest == Max(Tail(list))
             first == Head(list)
         IN IF ~IsFinite(first) THEN rest
            ELSE IF rest = UndefinedValue THEN first
            ELSE IF rest.v > first.v THEN rest ELSE first

\* v is a truthy number: not undefined, NaN or 0
TruthyNumber(v) == IsFinite(v) /\ v.v # 0

\* a mutation of StackedMax that reads the first series, not the last
StackedMaxFirstSeries(yStackedMax, transformedData) ==
    IF TruthyNumber(yStackedMax) THEN yStackedMax
    ELSE Max(IF transformedData = <<>> THEN <<>>
             ELSE FlattenPairs(transformedData[1]))

\* yStackedMax || _.max(_.flatten(_.last(transformedData)))
StackedMax(yStackedMax, transformedData) ==
    IF TruthyNumber(yStackedMax) THEN yStackedMax
    ELSE Max(IF transformedData = <<>> THEN <<>>
             ELSE FlattenPairs(transformedData[Len(transformedData)]))

\* the entry (dIndex, seriesIndex) of the map over transformedData: a Point,
\* or undefined when the series is not valid
PointMark(props, domain, series, dIndex, seriesIndex) ==
    IF isValidSeries(series)
    THEN [emitted |-> TRUE,
          key |-> <<seriesIndex, dIndex>>,
          x |-> GetField(props.data[seriesIndex + 1], props.xField),
          y |-> [value |-> IF IsArray(series) THEN Last(series.items) ELSE series,
                 domain |-> domain],
          hasStroke |-> props.hasStroke,
          kind |-> dIndex + props.colorOffset,
          color |-> IF props.yFields[dIndex + 1] \in DOMAIN props.colorMap
                    THEN props.colorMap[props.yFields[dIndex + 1]]
                    ELSE props.palette[((dIndex + props.colorOffset)
                                           % Len(props.palette)) + 1]]
    ELSE [emitted |-> FALSE]

\* _.keys(Points.propTypes)
PointsPropTypes ==
    {"className", "palette", "colorMap", "data", "xScale", "yScale", "xField",
     "yFields", "yStackedMax", "colorOffset", "hasStroke", "isStacked"}

\* const { className, data, palette, colorMap, colorOffset, xField, hasStroke,
\*         xScale, yFields, yStackedMax, isStacked, yScale, ...passThroughs }
PointsPassThroughs(props) ==
    Omit(props, {"className", "data", "palette", "colorMap", "colorOffset",
                 "xField", "hasStroke", "xScale", "yFields", "yStackedMax",
                 "isStacked", "yScale"})

\* the Points render function: the <g> it returns, with the domain of its
\* copy of the y scale
Points(props) ==
    LET transformedData ==
            IF props.isStacked THEN stack(props.yFields, props.data)
            ELSE groupByFields(props.data, props.yFields)
        domain ==
            IF props.isStacked
            THEN <<props.yScale.domain[1],
                   StackedMax(props.yStackedMax, transformedData)>>
            ELSE props.yScale.domain
    IN [tag |-> "g",
        attrs |-> Spread(omitProps(PointsPassThroughs(props), PointsPropTypes),
                         {"className", "children"}),
        className |-> cx([n \in {"&"} |-> TRUE], {props.className}),
        domain |-> domain,
        marks |-> [d \in 1..Len(transformedData) |->
                     [r \in 1..Len(transformedData[d]) |->
                        PointMark(props, domain, transformedData[d][r],
                                  d - 1, r - 1)]]]

YFieldLists == {<<>>, <<"y0">>, <<"y0", "y1">>}
PointsRows == [x : {"a"}, y0 : RawValues, y1 : RawValues]
YStackedMaxSet == {UndefinedValue, Num(0), Num(7)}

PointsPropsSet ==
    [data : SeqsUpTo(PointsRows, MaxRows), yFields : YFieldLists,
     isStacked : BOOLEAN, yStackedMax : YStackedMaxSet,
     xField : {"x"}, colorOffset : {0}, className : {Undefined},
     hasStroke : {TRUE}, palette : {<<"COLOR_0", "COLOR_1", "COLOR_2">>},
     colorMap : {[y1 |-> "#abc123"]},
     yScale : {[domain |-> <<Num(0), Num(10)>>]}]

PointsInit ==
    /\ pointsProps \in PointsPropsSet
    /\ pointsTree = Points(pointsProps)

DefaultPointsProps ==
    [data |-> <<>>, yFields |-> <<"y">>, isStacked |-> FALSE,
     yStackedMax |-> UndefinedValue, xField |-> "x", colorOffset |-> 0,
     className |-> Undefined, hasStroke |-> TRUE,
     palette |-> <<"COLOR_0", "COLOR_1", "COLOR_2">>,
     colorMap |-> [y1 |-> "#abc123"],
     yScale |-> [domain |-> <<Num(0), Num(10)>>]]

PointsIdle ==
    /\ pointsProps = DefaultPointsProps
    /\ pointsTree = Points(pointsProps)

\* the owner re-renders Points with isStacked switched
PointsSetStacked ==
    /\ pointsProps' = [pointsProps EXCEPT !.isStacked = ~@]
    /\ pointsTree' = Points(pointsProps')
    /\ UNCHANGED notPoints

\* the owner re-renders Points with another yStackedMax
PointsSetYStackedMax ==
    \E m \in YStackedMaxSet :
        /\ m # pointsProps.yStackedMax
        /\ pointsProps' = [pointsProps EXCEPT !.yStackedMax = m]
        /\ pointsTree' = Points(pointsProps')
        /\ UNCHANGED notPoints

PointsNext == PointsSetStacked \/ PointsSetYStackedMax

(***************************************************************************)
(* Banner                                                                  *)
(***************************************************************************)
\* the values of `kind` the Banner declares, and one it does not
BannerKinds == {"primary", "success", "warning", "danger", "info", "default"}
UnknownKinds == {"fancy"}

\* the icons given to a Banner: none, or an icon element
BannerIcons == {Null, "InfoIcon"}

\* _.noop, the default onClose, and a callback of the owner
Noop == "noop"
BannerCallbacks == {Noop, "cbClose"}

\* the props of the CloseIcon that reports a click
CloseIconProps ==
    [isClickable |-> TRUE, size |-> 8, className |-> {"&-close"},
     onClick |-> "handleClose"]

BannerPropsSet ==
    [icon : BannerIcons, isCloseable : BOOLEAN, isFilled : BOOLEAN,
     isSmall : BOOLEAN, kind : BannerKinds \cup UnknownKinds,
     onClose : BannerCallbacks, isClosed : BOOLEAN, className : {Undefined},
     children : {"Saved."}]

\* Banner.defaultProps
DefaultBannerProps ==
    [icon |-> Null, isCloseable |-> TRUE, isFilled |-> TRUE, isSmall |-> FALSE,
     kind |-> "default", onClose |-> Noop, isClosed |-> FALSE,
     className |-> Undefined, children |-> "Saved."]

\* _.keys(Banner.propTypes)
BannerPropTypes ==
    {"icon", "isCloseable", "isFilled", "isSmall", "className", "children",
     "kind", "onClose", "isClosed"}

\* const { icon, kind, className, children, isCloseable, isClosed, isFilled,
\*         isSmall, onClose, ...passThroughs } = props
BannerPassThroughs(props) ==
    Omit(props, {"icon", "kind", "className", "children", "isCloseable",
                 "isClosed", "isFilled", "isSmall", "onClose"})

\* a mutation of handleClose that invokes onClose twice
handleCloseTwice(props, arg) ==
    <<[fn |-> props.onClose, arg |-> [event |-> arg.event, props |-> arg.props]],
      [fn |-> props.onClose, arg |-> [event |-> arg.event, props |-> arg.props]]>>

\* handleClose: the calls it makes
handleClose(props, arg) ==
    <<[fn |-> props.onClose, arg |-> [event |-> arg.event, props |-> arg.props]]>>

\* a mutation of BannerKindClasses that styles an undeclared kind as info
BannerKindClassesInfoFallback(kind) ==
    "&-primary" :> (kind = "primary") @@
    "&-success" :> (kind = "success") @@
    "&-warning" :> (kind = "warning") @@
    "&-danger" :> (kind = "danger") @@
    "&-info" :> (kind \notin {"primary", "success", "warning", "danger",
                              "default"})

\* the kind entries of the class-name map
BannerKindClasses(kind) ==
    "&-primary" :> (kind = "primary") @@
    "&-success" :> (kind = "success") @@
    "&-warning" :> (kind = "warning") @@
    "&-danger" :> (kind = "danger") @@
    "&-info" :> (kind = "info")

\* {!isClosed ? <section ...> : null}
BannerSection(props, displayedIcon) ==
    IF ~props.isClosed
    THEN [tag |-> "section",
          attrs |-> Spread(omitProps(BannerPassThroughs(props), BannerPropTypes),
                           {"className", "children"}),
          className |->
              cx("&" :> TRUE @@
                 "&-has-icon" :> (displayedIcon # Null) @@
                 "&-has-close" :> props.isCloseable @@
                 BannerKindClasses(props.kind) @@
                 "&-small" :> props.isSmall @@
                 "&-filled" :> props.isFilled,
                 {props.className}),
          icon |-> IF displayedIcon # Null
                   THEN [tag |-> "span",
                         className |-> cx([n \in {"&-icon"} |-> TRUE], {}),
                         children |-> displayedIcon]
                   ELSE NullElement,
          content |-> [tag |-> "span",
                       className |-> cx([n \in {"&-content"} |-> TRUE], {}),
                       children |-> props.children],
          close |-> IF props.isCloseable
                    THEN [tag |-> "CloseIcon", props |-> CloseIconProps]
                    ELSE NullElement]
    ELSE NullElement

\* the Banner render function: the transition group it returns, around the
\* section
Banner(props) ==
    LET displayedIcon == IF props.icon # Null THEN props.icon ELSE Null
    IN [tag |-> "ReactTransitionGroup",
        transitionName |-> cx([n \in {"&"} |-> TRUE], {}),
        transitionEnterTimeout |-> 300,
        transitionLeaveTimeout |-> 300,
        child |-> BannerSection(props, displayedIcon)]

NoBannerClick == [event |-> Undefined]

BannerInit ==
    /\ bannerProps \in BannerPropsSet
    /\ bannerTree = Banner(bannerProps)
    /\ bannerClicked = NoBannerClick
    /\ bannerCalls = <<>>

BannerIdle ==
    /\ bannerProps = DefaultBannerProps
    /\ bannerTree = Banner(bannerProps)
    /\ bannerClicked = NoBannerClick
    /\ bannerCalls = <<>>

\* the owner re-renders the Banner with another isClosed
BannerSetClosed ==
    /\ bannerProps' = [bannerProps EXCEPT !.isClosed = ~@]
    /\ bannerTree' = Banner(bannerProps')
    /\ bannerClicked' = NoBannerClick
    /\ bannerCalls' = <<>>
    /\ UNCHANGED notBanner

\* the owner re-renders the Banner with another kind
BannerSetKind ==
    \E k \in BannerKinds \cup UnknownKinds :
        /\ k # bannerProps.kind
        /\ bannerProps' = [bannerProps EXCEPT !.kind = k]
        /\ bannerTree' = Banner(bannerProps')
        /\ bannerClicked' = NoBannerClick
        /\ bannerCalls' = <<>>
        /\ UNCHANGED notBanner

\* a click on the close icon: the icon reports it to its onClick with the
\* event and its own props
BannerClickClose ==
    \E event \in Events :
        /\ bannerTree.child # NullElement
        /\ bannerTree.child.close # NullElement
        /\ bannerClicked' = [event |-> event]
        /\ bannerCalls' = handleClose(bannerProps,
                                      [event |-> event,
                                       props |-> bannerTree.child.close.props])
        /\ UNCHANGED <<bannerProps, bannerTree>>
        /\ UNCHANGED notBanner

BannerNext == BannerSetClosed \/ BannerSetKind \/ BannerClickClose

(***************************************************************************)
(* The owner gives a mounted component other attributes besides its        *)
(* options.                                                                *)
(***************************************************************************)
\* props with the attributes of extra added, or replaced
WithAttrs(props, extra) ==
    [k \in DOMAIN props \cup DOMAIN extra |->
        IF k \in DOMAIN extra THEN extra[k] ELSE props[k]]

\* the attributes an owner adds that no component declares
ExtraAttrs ==
    {<<>>, [n \in {"data-id"} |-> "chart-7"],
     "data-id" :> "chart-7" @@ "aria-label" :> "Revenue"}

\* each of `options` joined with each of ExtraAttrs
AttrsSet(options) == {WithAttrs(o, e) : o \in options, e \in ExtraAttrs}

LegendAttrsSet ==
    AttrsSet({<<>>,
              [n \in {"Item"} |-> [hasPoint |-> TRUE, hasLine |-> FALSE]],
              [n \in {"children"} |->
                  Element(LegendItemType, [hasPoint |-> TRUE, hasLine |-> FALSE])],
              [n \in {"className"} |-> "wide"]})

PanelAttrsSet ==
    AttrsSet({<<>>, [n \in {"Header"} |-> "Title"],
              [n \in {"style"} |-> "width: 50%"],
              [n \in {"className"} |-> "wide"]})

PointsAttrsSet ==
    AttrsSet({<<>>, [n \in {"children"} |-> Element("title", [text |-> "t"])]})

BannerAttrsSet ==
    AttrsSet({<<>>, [n \in {"isClosed"} |-> TRUE]})

LegendReceive ==
    \E extra \in LegendAttrsSet :
        /\ legendProps' = WithAttrs(DefaultLegendProps, extra)
        /\ legendProps' # legendProps
        /\ legendTree' = Legend(legendProps')
        /\ legendClicked' = NoClick
        /\ legendCalls' = <<>>
        /\ UNCHANGED notLegend

PanelReceive ==
    \E extra \in PanelAttrsSet :
        /\ panelProps' = WithAttrs(DefaultPanelProps, extra)
        /\ panelProps' # panelProps
        /\ panelTree' = Panel(panelProps')
        /\ panelDom' = PanelDocument(panelTree')
        /\ UNCHANGED notPanel

PointsReceive ==
    \E extra \in PointsAttrsSet :
        /\ pointsProps' = WithAttrs(DefaultPointsProps, extra)
        /\ pointsProps' # pointsProps
        /\ pointsTree' = Points(pointsProps')
        /\ UNCHANGED notPoints

BannerReceive ==
    \E extra \in BannerAttrsSet :
        /\ bannerProps' = WithAttrs(DefaultBannerProps, extra)
        /\ bannerProps' # bannerProps
        /\ bannerTree' = Banner(bannerProps')
        /\ bannerClicked' = NoBannerClick
        /\ bannerCalls' = <<>>
        /\ UNCHANGED notBanner

AttrsNext == LegendReceive \/ PanelReceive \/ PointsReceive \/ BannerReceive

(***************************************************************************)
(* Slot extraction on its own: the expression both Panel and Legend use,   *)
(* applied to a children value and a slot type.                            *)
(***************************************************************************)
SlotTypes == {PanelHeaderType, PanelFooterType, LegendItemType}

SlotsInit ==
    /\ slotProps \in [children : ChildrenSet(PanelElements, MaxPanelChildren)
                                  \cup ChildrenSet(LegendElements,
                                                   MaxLegendChildren)]
    /\ slotType \in SlotTypes
    /\ slotResult = <<>>
    /\ slotPc = "start"

SlotsIdle ==
    /\ slotProps = [children |-> NoChildren]
    /\ slotType = LegendItemType
    /\ slotResult = <<>>
    /\ slotPc = "start"

ExtractSlots ==
    /\ slotPc = "start"
    /\ slotResult' = ChildProps(slotProps, slotType)
    /\ slotPc' = "done"
    /\ UNCHANGED <<slotProps, slotType>>
    /\ UNCHANGED notSlots

SlotsNext == ExtractSlots

(***************************************************************************)
(* The specifications: one component is exercised, the others stay as      *)
(* mounted with their default props.                                       *)
(***************************************************************************)
InitLegend == LegendInit /\ PanelIdle /\ PointsIdle /\ SlotsIdle /\ BannerIdle
SpecLegend == InitLegend /\ [][LegendNext]_vars

InitPanel == PanelInit /\ LegendIdle /\ PointsIdle /\ SlotsIdle /\ BannerIdle
SpecPanel == InitPanel /\ [][PanelNext]_vars

InitPoints == PointsInit /\ LegendIdle /\ PanelIdle /\ SlotsIdle /\ BannerIdle
SpecPoints == InitPoints /\ [][PointsNext]_vars

InitSlots == SlotsInit /\ LegendIdle /\ PanelIdle /\ PointsIdle /\ BannerIdle
SpecSlots == InitSlots /\ [][SlotsNext]_vars

InitAttrs == LegendIdle /\ PanelIdle /\ PointsIdle /\ SlotsIdle /\ BannerIdle
SpecAttrs == InitAttrs /\ [][AttrsNext]_vars

InitEnums == LegendInit /\ PanelIdle /\ PointsIdle /\ SlotsIdle /\ BannerIdle
SpecEnums == InitEnums /\ [][LegendSetOrient \/ BannerSetKind]_vars

InitBanner == BannerInit /\ LegendIdle /\ PanelIdle /\ PointsIdle /\ SlotsIdle
SpecBanner == InitBanner /\ [][BannerNext]_vars

(***************************************************************************)
(* What the claims speak of, stated from the inputs.                       *)
(***************************************************************************)
\* the positions of the elements of type T in the flattened children F
TaggedAt(F, T) == {i \in 1..Len(F) : F[i].type = T}

\* the position in F of the k-th element of type T
NthTagged(F, T, k) ==
    CHOOSE i \in TaggedAt(F, T) : Cardinality({j \in TaggedAt(F, T) : j <= i}) = k

\* the flattened children of the mounted Legend, and its k-th item's props
LegendFlat == Flatten(legendProps.children)
LegendItemCount == Cardinality(TaggedAt(LegendFlat, LegendItemType))
LegendItemAt(k) == LegendFlat[NthTagged(LegendFlat, LegendItemType, k)].props

\* C1: slot extraction returns exactly the props of the elements of the
\* children that carry the slot type, in their original order; its length is
\* the number of such elements, and with none of them it is the empty list.
C1_SlotExtraction ==
    slotPc = "done" =>
        LET F == Flatten(slotProps.children)
        IN /\ Len(slotResult) = Cardinality(TaggedAt(F, slotType))
           /\ \A k \in 1..Len(slotResult) :
                  slotResult[k] = F[NthTagged(F, slotType, k)].props
           /\ (TaggedAt(F, slotType) = {} => slotResult = <<>>)

\* an extraction from a children value with a nested array, an element of
\* another type in front and one tagged element after it
C1_Witness ==
    /\ slotPc = "done"
    /\ slotProps.children.kind = "arr"
    /\ \E i \in 1..Len(slotProps.children.items) :
           slotProps.children.items[i].kind = "arr"
    /\ Len(Flatten(slotProps.children)) = 2
    /\ Flatten(slotProps.children)[1].type # slotType
    /\ Flatten(slotProps.children)[2].type = slotType
    /\ Len(slotResult) = 1
    /\ slotResult[1] = Flatten(slotProps.children)[2].props

\* C2 as claimed: in a vertical Legend where some item has a line, every
\* item renders an indicator area of width LINE_WIDTH.
C2_AllRowsWide ==
    (/\ legendProps.orient = "vertical"
     /\ \E k \in 1..LegendItemCount : LegendItemAt(k).hasLine)
    => /\ Len(legendTree.rows) = LegendItemCount
       /\ \A k \in 1..Len(legendTree.rows) :
              /\ legendTree.rows[k].indicator.present
              /\ legendTree.rows[k].indicator.width = LINE_WIDTH

\* C2 as amended: in a vertical Legend where some item has a line, every
\* item that has a point or a line renders its indicator area at width
\* LINE_WIDTH, never POINT_SIZE, and an item with neither renders no
\* indicator area.
C2_IndicatorRowsWide ==
    (/\ legendProps.orient = "vertical"
     /\ \E k \in 1..LegendItemCount : LegendItemAt(k).hasLine)
    => /\ Len(legendTree.rows) = LegendItemCount
       /\ \A k \in 1..Len(legendTree.rows) :
              LET item == LegendItemAt(k)
                  ind == legendTree.rows[k].indicator
              IN IF item.hasPoint \/ item.hasLine
                 THEN /\ ind.present
                      /\ ind.width = LINE_WIDTH
                      /\ ind.width # POINT_SIZE
                      /\ (ind.point.present => ind.point.x = LINE_WIDTH \div 2)
                 ELSE ~ind.present

\* a vertical Legend of a point-only item followed by a line-only item, both
\* rendered wide
C2_Witness ==
    /\ legendProps.orient = "vertical"
    /\ LegendItemCount = 2
    /\ LegendItemAt(1).hasPoint /\ ~LegendItemAt(1).hasLine
    /\ LegendItemAt(2).hasLine /\ ~LegendItemAt(2).hasPoint
    /\ legendTree.rows[1].indicator.width = LINE_WIDTH
    /\ legendTree.rows[2].indicator.width = LINE_WIDTH

\* C3: a click on row i invokes item i's own onClick exactly once, with i
\* (counted from 0 in the extracted sequence) and {event, props of item i},
\* and nothing else; an item without onClick invokes nothing.
C3_ClickInvokesOwnCallback ==
    legendClicked.row >= 0 =>
        /\ legendClicked.row < LegendItemCount
        /\ LET item == LegendItemAt(legendClicked.row + 1)
           IN IF item.onClick = Undefined
              THEN legendCalls = <<>>
              ELSE /\ Len(legendCalls) = 1
                   /\ legendCalls[1].fn = item.onClick
                   /\ legendCalls[1].index = legendClicked.row
                   /\ legendCalls[1].arg.props = item
                   /\ legendCalls[1].arg.event = legendClicked.event

\* the second of two items with different callbacks was clicked
C3_Witness ==
    /\ legendClicked.row = 1
    /\ LegendItemCount = 2
    /\ LegendItemAt(1).onClick = "cbA"
    /\ LegendItemAt(2).onClick = "cbB"
    /\ Len(legendCalls) = 1
    /\ legendCalls[1].fn = "cbB"

\* C4: a re-render that switches isReversed changes, of what the Legend
\* returns, only whether the root carries the &-is-reversed class: the rows,
\* their order and the position each row's click reports stay the same, the
\* position being that of the item among the declared items.
C4_ReversedOnlyClass ==
    [][/\ \A k \in 1..Len(legendTree.rows) :
              /\ legendTree.rows[k].onClick.index = k - 1
              /\ legendTree.rows[k].onClick.props = LegendItemAt(k)
       /\ (legendProps'.isReversed # legendProps.isReversed) =>
              /\ legendTree'.rows = legendTree.rows
              /\ legendTree'.className \ {"&-is-reversed"}
                     = legendTree.className \ {"&-is-reversed"}
              /\ ("&-is-reversed" \in legendTree'.className)
                     <=> legendProps'.isReversed
              /\ ("&-is-reversed" \in legendTree.className)
                     <=> legendProps.isReversed]_vars

\* a reversed Legend of two different items whose second row was clicked and
\* reported position 1
C4_Witness ==
    /\ legendProps.isReversed
    /\ "&-is-reversed" \in legendTree.className
    /\ LegendItemCount = 2
    /\ LegendItemAt(1) # LegendItemAt(2)
    /\ legendClicked.row = 1
    /\ Len(legendCalls) = 1
    /\ legendCalls[1].index = 1

(***************************************************************************)
(* Panel claims.                                                           *)
(***************************************************************************)
PanelFlat == Flatten(panelProps.children)
PanelSlotTypes == {PanelHeaderType, PanelFooterType}
HeaderCount == Cardinality(TaggedAt(PanelFlat, PanelHeaderType))
FooterCount == Cardinality(TaggedAt(PanelFlat, PanelFooterType))

\* what a host element puts in the document
HostNode(el) == [tag |-> el.type, props |-> el.props]

\* the children without the instances of a slot type that follow the first
\* instance of that type
WithoutLaterInstances(F) ==
    SelectSeq([i \in 1..Len(F) |-> [at |-> i, el |-> F[i]]],
              LAMBDA e : \/ e.el.type \notin PanelSlotTypes
                         \/ e.at = NthTagged(F, e.el.type, 1))

\* the children as a flat array of the elements picked
ArrayOfPicked(picked) == ArrayNode([i \in 1..Len(picked) |-> picked[i].el])

\* C7: with two or more instances of the same slot type the region is
\* rendered from the first instance's props, and the document is the one
\* rendered when the later instances are absent.
C7_FirstInstanceOnly ==
    (HeaderCount >= 2 \/ FooterCount >= 2) =>
        /\ HeaderCount >= 1 =>
              /\ panelDom.header.present
              /\ panelDom.header.props.children
                     = PanelFlat[NthTagged(PanelFlat, PanelHeaderType, 1)].props.children
        /\ FooterCount >= 1 =>
              /\ panelDom.footer.present
              /\ panelDom.footer.props.children
                     = PanelFlat[NthTagged(PanelFlat, PanelFooterType, 1)].props.children
        /\ panelDom = PanelDocument(Panel(
               [panelProps EXCEPT
                  !.children = ArrayOfPicked(WithoutLaterInstances(PanelFlat))]))

\* a Panel with two headers of different content
C7_Witness ==
    /\ HeaderCount = 2
    /\ PanelFlat[NthTagged(PanelFlat, PanelHeaderType, 1)].props.children = "A"
    /\ PanelFlat[NthTagged(PanelFlat, PanelHeaderType, 2)].props.children = "B"
    /\ panelDom.header.present
    /\ panelDom.header.props.children = "A"

\* C8: the section is always rendered, and what it shows is exactly the
\* children that are neither Panel.Header nor Panel.Footer, in their order.
C8_SectionShowsNonSlotChildren ==
    /\ panelDom.section.present
    /\ panelDom.section.tag = "section"
    /\ LET rest == SelectSeq(PanelFlat, LAMBDA e : e.type \notin PanelSlotTypes)
       IN panelDom.section.content = [i \in 1..Len(rest) |-> HostNode(rest[i])]

\* a Panel whose children are a header between two different paragraphs
C8_Witness ==
    /\ Len(PanelFlat) = 3
    /\ PanelFlat[1].type = "p"
    /\ PanelFlat[2].type = PanelHeaderType
    /\ PanelFlat[3].type = "p"
    /\ PanelFlat[1] # PanelFlat[3]
    /\ Len(panelDom.section.content) = 2
    /\ panelDom.header.present

\* C9: without a Header and without a Footer no header and no footer region
\* is rendered, and the section shows all the children, unchanged and in order.
C9_NoSlotsNoRegions ==
    (HeaderCount = 0 /\ FooterCount = 0) =>
        /\ ~panelDom.header.present
        /\ ~panelDom.footer.present
        /\ panelDom.section.present
        /\ panelDom.section.content
               = [i \in 1..Len(PanelFlat) |-> HostNode(PanelFlat[i])]

\* a Panel of two different paragraphs and no slot instance
C9_Witness ==
    /\ HeaderCount = 0 /\ FooterCount = 0
    /\ Len(PanelFlat) = 2
    /\ PanelFlat[1] # PanelFlat[2]
    /\ Len(panelDom.section.content) = 2
    /\ ~panelDom.header.present

(***************************************************************************)
(* Points claims.                                                          *)
(***************************************************************************)
PointsData == pointsProps.data
PointsFields == pointsProps.yFields

\* every value the yFields name is a finite number
AllNumbers ==
    \A r \in 1..Len(PointsData), f \in 1..Len(PointsFields) :
        PointsData[r][PointsFields[f]].k = "number"

RECURSIVE SumOfFields(_, _)
\* the sum of the row's values of the first n yFields
SumOfFields(row, n) ==
    IF n = 0 THEN 0 ELSE SumOfFields(row, n - 1) + row[PointsFields[n]].v

\* the largest number of a non-empty set
MaxOf(S) == CHOOSE m \in S : \A n \in S : n <= m

\* C5 as claimed: stacked and without yStackedMax, the upper bound of the
\* domain is the largest cumulative sum of a row's yFields values.
C5_UpperBoundIsMaxSum ==
    (/\ pointsProps.isStacked
     /\ pointsProps.yStackedMax = UndefinedValue
     /\ PointsData # <<>> /\ PointsFields # <<>> /\ AllNumbers)
    => pointsTree.domain[2]
           = Num(MaxOf({SumOfFields(PointsData[r], Len(PointsFields))
                          : r \in 1..Len(PointsData)}))

\* C5 as amended: stacked and without yStackedMax, the upper bound of the
\* domain is the largest, over the rows, of the row's cumulative sum over all
\* the yFields and its cumulative sum over all but the last of them.
C5_UpperBoundIsMaxOfLastSeries ==
    (/\ pointsProps.isStacked
     /\ pointsProps.yStackedMax = UndefinedValue
     /\ PointsData # <<>> /\ PointsFields # <<>> /\ AllNumbers)
    => /\ pointsTree.domain[1] = pointsProps.yScale.domain[1]
       /\ pointsTree.domain[2]
           = Num(MaxOf({SumOfFields(PointsData[r], Len(PointsFields))
                          : r \in 1..Len(PointsData)}
                       \cup {SumOfFields(PointsData[r], Len(PointsFields) - 1)
                               : r \in 1..Len(PointsData)}))

\* stacked rows {y0: 2, y1: 2} and {y0: -1, y1: 2}: the upper bound is 4
C5_Witness ==
    /\ pointsProps.isStacked
    /\ pointsProps.yStackedMax = UndefinedValue
    /\ PointsFields = <<"y0", "y1">>
    /\ Len(PointsData) = 2
    /\ PointsData[1].y0 = Num(2) /\ PointsData[1].y1 = Num(2)
    /\ PointsData[2].y0 = Num(-1) /\ PointsData[2].y1 = Num(2)
    /\ pointsTree.domain[2] = Num(4)

\* C6 as claimed: stacked and with a yStackedMax, the upper bound of the
\* domain is that yStackedMax, whatever number it is.
C6_OverrideVerbatim ==
    (pointsProps.isStacked /\ pointsProps.yStackedMax # UndefinedValue)
    => pointsTree.domain[2] = pointsProps.yStackedMax

\* the value yScale is given for the entry of series d (counted from 1) of
\* row r: the row's value when grouped; when stacked, the sum of the row's
\* numeric values up to series d, NaN when the value of series d is not numeric
RECURSIVE SumOfNumeric(_, _)
SumOfNumeric(row, n) ==
    IF n = 0 THEN 0
    ELSE SumOfNumeric(row, n - 1)
         + (LET v == ToNumber(row[PointsFields[n]])
            IN IF v.k = "number" THEN v.v ELSE 0)

TerminalValue(d, r) ==
    LET raw == PointsData[r][PointsFields[d]]
    IN IF ~pointsProps.isStacked THEN raw
       ELSE IF ToNumber(raw).k = "number"
            THEN Num(SumOfNumeric(PointsData[r], d))
            ELSE NaN

\* C10: stacked or grouped, the render has one entry per (series, row); the
\* entry whose terminal value is neither a finite number nor a date emits no
\* Point, and every other entry emits one Point, at its own terminal value.
C10_BadEntrySkippedOthersKept ==
    /\ Len(pointsTree.marks) = Len(PointsFields)
    /\ \A d \in 1..Len(PointsFields) :
          /\ Len(pointsTree.marks[d]) = Len(PointsData)
          /\ \A r \in 1..Len(PointsData) :
                LET t == TerminalValue(d, r)
                    mark == pointsTree.marks[d][r]
                IN IF t.k \in {"number", "date"}
                   THEN /\ mark.emitted
                        /\ mark.y.value = t
                        /\ mark.key = <<r - 1, d - 1>>
                   ELSE ~mark.emitted

\* a stacked render of two rows, the first with a non-numeric y0: its y0
\* entry emits nothing and the other three entries emit their Points
C10_Witness ==
    /\ pointsProps.isStacked
    /\ PointsFields = <<"y0", "y1">>
    /\ Len(PointsData) = 2
    /\ PointsData[1].y0.k = "string"
    /\ PointsData[1].y1.k = "number"
    /\ PointsData[2].y0.k = "number"
    /\ PointsData[2].y1.k = "date"
    /\ ~pointsTree.marks[1][1].emitted
    /\ pointsTree.marks[2][1].emitted
    /\ pointsTree.marks[1][2].emitted
    /\ pointsTree.marks[2][2].emitted

(***************************************************************************)
(* Pass-through attributes of the four components.                         *)
(***************************************************************************)
\* the names of the attributes a component received: those of its props that
\* are not left undefined
Received(props, undefinedChildren) ==
    {k \in DOMAIN props :
        /\ k \in {"className", "style"} => props[k] # Undefined
        /\ k = "children" => props[k] # undefinedChildren}

\* the mounted components: the props and the names of the attributes
\* received, the declared options and the root element rendered (null for a
\* Banner that renders no section)
Mounted ==
    <<[props |-> legendProps, received |-> Received(legendProps, NoChildren),
       propTypes |-> LegendPropTypes, root |-> legendTree],
      [props |-> panelProps, received |-> Received(panelProps, NoChildren),
       propTypes |-> PanelPropTypes, root |-> panelTree],
      [props |-> pointsProps, received |-> Received(pointsProps, NoChildren),
       propTypes |-> PointsPropTypes, root |-> pointsTree],
      [props |-> bannerProps, received |-> Received(bannerProps, Undefined),
       propTypes |-> BannerPropTypes, root |-> bannerTree.child]>>

\* the options and slot props the statement names as never forwarded
NamedOptions ==
    {"Header", "Footer", "Item", "isGutterless", "orient", "kind", "isClosed",
     "yFields"}

\* the received attributes that reach the root element with their value: the
\* spread ones, a class name merged into the root's, a style set on the root
ForwardedTo(root, props) ==
    IF root = NullElement THEN {}
    ELSE {k \in DOMAIN root.attrs : root.attrs[k] = props[k]}
         \cup {k \in {"className"} \cap DOMAIN props :
                 props[k] # Undefined /\ props[k] \in root.className}
         \cup {k \in {"style"} \cap DOMAIN props \cap DOMAIN root :
                 props[k] # Undefined /\ root.style = props[k]}

\* C11, as stated: every received attribute that is not a declared option
\* reaches the root element unchanged, and no declared option reaches it
C11_ExactlyUndeclaredForwarded ==
    \A i \in DOMAIN Mounted :
        LET c == Mounted[i]
        IN ForwardedTo(c.root, c.props) = c.received \ c.propTypes

\* C11: on Panel, Legend, Points and a Banner that is not closed, every
\* received attribute that is neither a declared option nor `children`
\* reaches the root element unchanged and nothing else is spread onto it; of
\* the declared options only className (merged into the root's class names)
\* and Panel's style reach the root, and none of the options the statement
\* names does; a closed Banner renders no root element
C11_UndeclaredForwarded ==
    /\ \A i \in DOMAIN Mounted :
        LET c == Mounted[i]
            undeclared == c.received \ (c.propTypes \cup {"children"})
        IN c.root # NullElement =>
            /\ DOMAIN c.root.attrs = undeclared
            /\ \A k \in undeclared : c.root.attrs[k] = c.props[k]
            /\ ForwardedTo(c.root, c.props) \cap NamedOptions = {}
            /\ ForwardedTo(c.root, c.props) \cap c.propTypes
                   \subseteq {"className", "style"}
            /\ Prop(c.props, "className") # Undefined
                   => c.props.className \in c.root.className
    /\ panelTree.style = Prop(panelProps, "style")
    /\ (bannerTree.child = NullElement) <=> bannerProps.isClosed

\* every component has received an undeclared attribute, Legend and Panel a
\* slot prop too, and the Banner renders its section
C11_Witness ==
    /\ \A i \in DOMAIN Mounted :
        /\ Mounted[i].root # NullElement
        /\ "data-id" \in Mounted[i].received
    /\ "aria-label" \in DOMAIN legendTree.attrs
    /\ "Item" \in DOMAIN legendProps
    /\ "Header" \in DOMAIN panelProps
    /\ "children" \in DOMAIN pointsProps

(***************************************************************************)
(* Enum options with a value outside their declared values.                *)
(***************************************************************************)
OrientClasses == {"&-is-horizontal", "&-is-vertical"}
KindClasses == {"&-primary", "&-success", "&-warning", "&-danger", "&-info"}

\* C12: a Legend whose orient is neither horizontal nor vertical carries
\* neither the is-horizontal nor the is-vertical class and still renders one
\* row per item, in order; an open Banner whose kind is none of primary,
\* success, warning, danger, info carries none of the kind classes and still
\* renders its content.
C12_UnknownEnumNoModifier ==
    /\ legendProps.orient \notin {"horizontal", "vertical"} =>
          /\ legendTree.className \cap OrientClasses = {}
          /\ Len(legendTree.rows) = LegendItemCount
          /\ \A k \in 1..LegendItemCount :
                /\ legendTree.rows[k].onClick.props = LegendItemAt(k)
                /\ legendTree.rows[k].children = Prop(LegendItemAt(k), "children")
    /\ bannerProps.kind \notin {"primary", "success", "warning", "danger", "info"} =>
          /\ bannerTree.child # NullElement
          /\ bannerTree.child.className \cap KindClasses = {}
          /\ bannerTree.child.content.children = bannerProps.children

\* a Legend of two items with an undeclared orient next to a Banner with an
\* undeclared kind
C12_Witness ==
    /\ legendProps.orient = "diagonal"
    /\ LegendItemCount = 2
    /\ Len(legendTree.rows) = 2
    /\ bannerProps.kind \in UnknownKinds
    /\ bannerTree.child.content.children = "Saved."

(***************************************************************************)
(* Banner visibility and its close icon.                                   *)
(***************************************************************************)
SectionRendered == bannerTree.child # NullElement
CloseIconExists == SectionRendered /\ bannerTree.child.close # NullElement

\* what a handled click leaves behind: one invocation of the current onClose
\* with the event and the close icon's props
ClickReported ==
    bannerClicked # NoBannerClick =>
        /\ Len(bannerCalls) = 1
        /\ bannerCalls[1].fn = bannerProps.onClose
        /\ bannerCalls[1].arg
               = [event |-> bannerClicked.event, props |-> CloseIconProps]

\* C13, as stated: the section is rendered iff isClosed is false, the close
\* icon exists iff isCloseable is true, and a click invokes onClose once
C13_IconIffCloseable ==
    /\ SectionRendered <=> ~bannerProps.isClosed
    /\ CloseIconExists <=> bannerProps.isCloseable
    /\ ClickReported

\* C13: the section is rendered iff the current isClosed is false; the close
\* icon exists iff isCloseable is true and the Banner is not closed; each
\* click on it invokes the current onClose (the no-op by default) exactly
\* once with {event, props}, and changes neither the props nor what is
\* rendered.
C13_VisibilityFromIsClosed ==
    /\ [](/\ SectionRendered <=> ~bannerProps.isClosed
          /\ CloseIconExists <=> (bannerProps.isCloseable /\ ~bannerProps.isClosed)
          /\ ClickReported)
    /\ [][bannerClicked' \notin {bannerClicked, NoBannerClick} =>
             /\ CloseIconExists
             /\ bannerProps' = bannerProps
             /\ bannerTree' = bannerTree
             /\ Len(bannerCalls') = 1]_vars

\* the close icon of an open, closeable Banner was clicked and the owner's
\* callback was invoked with that event
C13_Witness ==
    /\ bannerProps.isCloseable
    /\ ~bannerProps.isClosed
    /\ CloseIconExists
    /\ bannerClicked.event = "click2"
    /\ bannerProps.onClose = "cbClose"
    /\ bannerCalls = <<[fn |-> "cbClose",
                        arg |-> [event |-> "click2", props |-> CloseIconProps]]>>
====
